---- MODULE Spec2Model ----
(***************************************************************************)
(* The trivia backend of backend/flaskr/__init__.py as a state machine.    *)
(* The store is the two tables Category and Question; every route handler  *)
(* is one action that reads or changes the store and produces a response.  *)
(* play_quiz, the one handler with a loop, is split at its random draws.   *)
(* Requests are handled one at a time (each request is independent and     *)
(* synchronous), so a handler runs only when no quiz draw is in progress.  *)
(* The actions describe what each handler does once it is called; the      *)
(* route string of search_questions, 'questions/search', is written        *)
(* without its leading slash.  Question and Category come from models.py:  *)
(* rows, format(), insert() and delete() follow the data model.            *)
(***************************************************************************)
EXTENDS Integers, Sequences, FiniteSets

VARIABLES categories, questions, nextId, request, response, pc, pool, next_question

vars == <<categories, questions, nextId, request, response, pc, pool, next_question>>

(* ---------------------------- bounds ----------------------------------- *)
MaxSeed == 11          \* largest number of question rows in an initial store
MaxSmallSeed == 2      \* initial stores have at most this many rows, or a page or more
MaxAdds == 1           \* rows inserted after the initial state
MaxPreviousId == 2     \* previous_questions draws its ids from 1..MaxPreviousId
MaxPage == 2           \* ?page= ranges over -MaxPage..MaxPage

(* ------------------------- program constants --------------------------- *)
QUESTIONS_PER_PAGE == 10

(* ------------------------------ JSON values ---------------------------- *)
\* A JSON value of a request body: a string (a sequence of characters), a
\* number, a list of numbers, an object with an id, or an absent key.
JStr(s) == [type |-> "str", str |-> s, int |-> 0, list |-> {}]
JInt(n) == [type |-> "int", str |-> <<>>, int |-> n, list |-> {}]
JList(l) == [type |-> "list", str |-> <<>>, int |-> 0, list |-> l]
JObj(id) == [type |-> "obj", str |-> <<>>, int |-> id, list |-> {}]
JAbsent == [type |-> "absent", str |-> <<>>, int |-> 0, list |-> {}]
JNone == [type |-> "none", str |-> <<>>, int |-> 0, list |-> {}]
EmptyStr == JStr(<<>>)

\* dict.get(key, default) and dict.get(key)
Get(body, key, default) == IF body[key].type = "absent" THEN default ELSE body[key]

NoBody ==
  [question |-> JAbsent, answer |-> JAbsent, difficulty |-> JAbsent, category |-> JAbsent,
   searchTerm |-> JAbsent, previous_questions |-> JAbsent, quiz_category |-> JAbsent]

Req(op, page, id, body) == [op |-> op, page |-> page, id |-> id, body |-> body]

(* ------------------------------ the store ------------------------------ *)
\* A Question row is <<id, question, answer, category, difficulty>>, a
\* Category row is <<id, type>>.
Question(id, question, answer, category, difficulty) ==
  <<id, question, answer, category, difficulty>>

QId(row) == row[1]
QText(row) == row[2]
QCategory(row) == row[4]

\* Question.format() / the dict the handlers build from Category rows
Format(row) ==
  [id |-> row[1], question |-> row[2], answer |-> row[3], category |-> row[4],
   difficulty |-> row[5]]

Ids(rows) == {QId(rows[i]) : i \in 1..Len(rows)}

\* rows with the row whose primary key is id removed (Question.delete())
DeleteRow(rows, id) == SelectSeq(rows, LAMBDA r : QId(r) # id)

\* rows with a new row appended (Question.insert()); the store assigns the id
InsertRow(rows, row) == Append(rows, row)

\* Query.filter_by(category=c).all()
FilterByCategory(rows, c) == SelectSeq(rows, LAMBDA r : QCategory(r) = c)

\* Query.filter_by(id=id).one_or_none() is None
NoRowWithId(rows, id) == \A i \in 1..Len(rows) : rows[i][1] # id

RowWithId(rows, id) == rows[CHOOSE i \in 1..Len(rows) : rows[i][1] = id]

\* {category.id: category.type for category in Category.query.all()}
CategoriesDict(cats) == [id \in Ids(cats) |-> RowWithId(cats, id)[2]]

(* ------------------------------ paginate ------------------------------- *)
Max(a, b) == IF a > b THEN a ELSE b
Min(a, b) == IF a < b THEN a ELSE b

\* Python's s[start:end] on a list, negative bounds counted from the end
SliceBound(n, i) == IF i < 0 THEN Max(n + i, 0) ELSE Min(i, n)

Slice(s, start, end) ==
  LET lo == SliceBound(Len(s), start)
      hi == SliceBound(Len(s), end)
  IN  IF lo < hi THEN SubSeq(s, lo + 1, hi) ELSE <<>>

FormatAll(rows) == [i \in 1..Len(rows) |-> Format(rows[i])]

\* paginate with a page one record too long
paginate_long(page, data) ==
  LET start == (page - 1) * QUESTIONS_PER_PAGE
      end == start + QUESTIONS_PER_PAGE + 1
      selection == FormatAll(data)
  IN  Slice(selection, start, end)

paginate(page, data) ==
  LET start == (page - 1) * QUESTIONS_PER_PAGE
      end == start + QUESTIONS_PER_PAGE
      selection == FormatAll(data)
  IN  Slice(selection, start, end)

(* ------------------------------- ilike --------------------------------- *)
\* case folding of the characters the model uses
Lower(c) == IF c = "A" THEN "a" ELSE IF c = "B" THEN "b" ELSE c

RECURSIVE Like(_, _)
\* SQL text ILIKE pat: % matches any run of characters, _ any one character,
\* every other character matches itself up to case
Like(text, pat) ==
  IF pat = <<>> THEN text = <<>>
  ELSE IF Head(pat) = "%"
       THEN Like(text, Tail(pat)) \/ (text # <<>> /\ Like(Tail(text), pat))
  ELSE IF text = <<>> THEN FALSE
  ELSE IF Head(pat) = "_" THEN Like(Tail(text), Tail(pat))
  ELSE Lower(Head(text)) = Lower(Head(pat)) /\ Like(Tail(text), Tail(pat))

\* Question.query.filter(Question.question.ilike(f'%{search_term}%')).all()
FilterILike(rows, search_term) ==
  SelectSeq(rows, LAMBDA r : Like(QText(r), <<"%">> \o search_term \o <<"%">>))

(* ------------------------------ responses ------------------------------ *)
NoQuestion == [id |-> 0, question |-> <<>>, answer |-> <<>>, category |-> 0, difficulty |-> 0]

NoResponse ==
  [status |-> 0, success |-> FALSE, error |-> 0, questions |-> <<>>, total_questions |-> 0,
   categories |-> <<>>, deleted |-> 0, current_category |-> "", question |-> NoQuestion]

\* the four error handlers: bad_request, not_found, internal_server_error,
\* unprocesable_entity
ErrorResponse(code) == [NoResponse EXCEPT !.status = code, !.error = code]

Success(code) == [NoResponse EXCEPT !.status = code, !.success = TRUE]

\* abort(code) raises an HTTPException, answered by the handler of that code
abort(code) == ErrorResponse(code)

\* an exception no handler code catches: Flask answers it through the 500 handler
UnhandledException == ErrorResponse(500)

\* the handler body without its try block: abort() reaches the client
TryExcept_absent(result, code) == result

\* try: <result> except Exception: abort(code) -- also the bare except of
\* delete_question. abort() inside the try block raises an exception that
\* the except clause catches like any other.
TryExcept(result, code) == IF result.success THEN result ELSE abort(code)

Idle == pc = "idle"

NoRow == <<0, <<>>, <<>>, 0, 0>>

QuizLocalsCleared == pool' = <<>> /\ next_question' = NoRow

\* a handler returns: the response is sent and its locals are gone
Answer(req, resp) ==
  /\ request' = req
  /\ response' = resp
  /\ pc' = "idle"
  /\ QuizLocalsCleared

(* ------------------------------ handlers ------------------------------- *)
\* GET /categories
get_all_categories ==
  /\ Idle
  /\ LET categories_dict == CategoriesDict(categories)
         result == IF Cardinality(DOMAIN categories_dict) = 0
                   THEN abort(404)
                   ELSE [Success(200) EXCEPT !.categories = categories_dict]
     IN  Answer(Req("get_all_categories", 1, 0, NoBody), TryExcept(result, 500))
  /\ UNCHANGED <<categories, questions, nextId>>

\* GET /questions?page=N
get_questions(page) ==
  /\ Idle
  /\ LET all_questions == questions
         questions_count == Len(all_questions)
         current_questions == paginate(page, all_questions)
         categories_dict == CategoriesDict(categories)
     IN  Answer(Req("get_questions", page, 0, NoBody),
                IF Len(current_questions) = 0
                THEN abort(404)
                ELSE [Success(200) EXCEPT !.questions = current_questions,
                                          !.total_questions = questions_count,
                                          !.categories = categories_dict])
  /\ UNCHANGED <<categories, questions, nextId>>

\* delete_question that answers without calling question.delete()
delete_question_kept(id, committed) ==
  /\ Idle
  /\ LET missing == NoRowWithId(questions, id)
         result == IF missing THEN abort(404)
                   ELSE IF ~committed THEN UnhandledException
                   ELSE [Success(200) EXCEPT !.deleted = id]
     IN  Answer(Req("delete_question", 1, id, NoBody), TryExcept(result, 422))
  /\ UNCHANGED <<categories, questions, nextId>>

\* DELETE /questions/<id>; committed says whether the store carries out the
\* deletion or raises
delete_question(id, committed) ==
  /\ Idle
  /\ LET missing == NoRowWithId(questions, id)
         result == IF missing THEN abort(404)
                   ELSE IF ~committed THEN UnhandledException
                   ELSE [Success(200) EXCEPT !.deleted = id]
     IN  /\ Answer(Req("delete_question", 1, id, NoBody), TryExcept(result, 422))
         /\ questions' = IF result.success THEN DeleteRow(questions, id) ELSE questions
  /\ UNCHANGED <<categories, nextId>>

\* add_question whose check of the fields leaves difficulty out
add_question_unchecked(body, committed) ==
  /\ Idle
  /\ LET question == Get(body, "question", EmptyStr)
         answer == Get(body, "answer", EmptyStr)
         difficulty == Get(body, "difficulty", EmptyStr)
         category == Get(body, "category", EmptyStr)
         invalid == question = EmptyStr \/ answer = EmptyStr \/ category = EmptyStr
         question_instance ==
           Question(nextId, question.str, answer.str, category.int, difficulty.int)
         result == IF ~committed THEN UnhandledException ELSE Success(201)
         resp == IF invalid THEN abort(422) ELSE TryExcept(result, 422)
     IN  /\ Answer(Req("add_question", 1, 0, body), resp)
         /\ questions' = IF resp.success THEN InsertRow(questions, question_instance)
                         ELSE questions
         /\ nextId' = IF resp.success THEN nextId + 1 ELSE nextId
  /\ UNCHANGED categories

\* POST /questions; committed says whether the store carries out the
\* insertion or raises
add_question(body, committed) ==
  /\ Idle
  /\ LET question == Get(body, "question", EmptyStr)
         answer == Get(body, "answer", EmptyStr)
         difficulty == Get(body, "difficulty", EmptyStr)
         category == Get(body, "category", EmptyStr)
         invalid == question = EmptyStr \/ answer = EmptyStr
                    \/ difficulty = EmptyStr \/ category = EmptyStr
         question_instance ==
           Question(nextId, question.str, answer.str, category.int, difficulty.int)
         result == IF ~committed THEN UnhandledException ELSE Success(201)
         resp == IF invalid THEN abort(422) ELSE TryExcept(result, 422)
     IN  /\ Answer(Req("add_question", 1, 0, body), resp)
         /\ questions' = IF resp.success THEN InsertRow(questions, question_instance)
                         ELSE questions
         /\ nextId' = IF resp.success THEN nextId + 1 ELSE nextId
  /\ UNCHANGED categories

\* POST /questions/search?page=N
search_questions(page, body) ==
  /\ Idle
  /\ LET search_term == Get(body, "searchTerm", EmptyStr)
         matches == FilterILike(questions, search_term.str)
         paginated_questions == paginate(page, matches)
         questions_count == Len(questions)
         result == IF Len(matches) = 0 THEN abort(404)
                   ELSE [Success(200) EXCEPT !.questions = paginated_questions,
                                             !.total_questions = questions_count]
     IN  Answer(Req("search_questions", page, 0, body),
                IF search_term = EmptyStr THEN abort(422) ELSE TryExcept(result, 404))
  /\ UNCHANGED <<categories, questions, nextId>>

\* the attributes of the Question model class the handlers read
QuestionAttributes == {"query"}

\* GET /categories/<id>/questions: the handler reads Question.quert, which
\* the model class does not have, so an AttributeError leaves the handler
\* before any question is queried
get_questions_by_category(id) ==
  /\ Idle
  /\ LET category_missing == NoRowWithId(categories, id)
         found == FilterByCategory(questions, id)
         paginated_questions == paginate(1, found)
     IN  Answer(Req("get_questions_by_category", 1, id, NoBody),
                IF category_missing THEN abort(422)
                ELSE IF "quert" \notin QuestionAttributes THEN UnhandledException
                ELSE [Success(200) EXCEPT
                        !.questions = paginated_questions,
                        !.total_questions = Len(found),
                        !.current_category = RowWithId(categories, id)[2]])
  /\ UNCHANGED <<categories, questions, nextId>>

\* randint that never returns its upper end
randint_short(a, b) == a..(b - 1)

\* random.randint(a, b): any integer of a..b
randint(a, b) == a..b

\* get_random_question(): questions[random.randint(0, len(questions) - 1)]
get_random_question(questions_, r) == questions_[r + 1]

\* the pool taken from all questions whatever the category
QuizPool_all(rows, quiz_category) == rows

\* the candidate pool of play_quiz
QuizPool(rows, quiz_category) ==
  IF quiz_category.int = 0 THEN rows ELSE FilterByCategory(rows, quiz_category.int)

\* POST /quizzes up to the first draw: the body is read and the pool queried
play_quiz(body) ==
  /\ Idle
  /\ request' = Req("play_quiz", 1, 0, body)
  /\ LET previous_questions == Get(body, "previous_questions", JNone)
         quiz_category == Get(body, "quiz_category", JNone)
     IN  IF previous_questions = JNone \/ quiz_category = JNone
         THEN /\ response' = abort(400)
              /\ pc' = "idle"
              /\ QuizLocalsCleared
         ELSE /\ pool' = QuizPool(questions, quiz_category)
              /\ next_question' = NoRow
              /\ pc' = "draw"
              /\ response' = NoResponse
  /\ UNCHANGED <<categories, questions, nextId>>

\* next_question = get_random_question(), the draw before the loop; randint
\* raises ValueError on an empty range, and nothing catches it
play_quiz_draw ==
  /\ pc = "draw"
  /\ IF randint(0, Len(pool) - 1) = {}
     THEN /\ response' = UnhandledException
          /\ pc' = "idle"
          /\ QuizLocalsCleared
     ELSE /\ \E r \in randint(0, Len(pool) - 1) :
               next_question' = get_random_question(pool, r)
          /\ pc' = "loop"
          /\ UNCHANGED <<response, pool>>
  /\ UNCHANGED <<categories, questions, nextId, request>>

\* one turn of the while loop on a question already seen: draw again
play_quiz_redraw(r) ==
  /\ pc = "loop"
  /\ QId(next_question) \in request.body.previous_questions.list
  /\ r \in randint(0, Len(pool) - 1)
  /\ next_question' = get_random_question(pool, r)
  /\ UNCHANGED <<categories, questions, nextId, request, response, pc, pool>>

\* the loop left on its first turn, whatever question was drawn
play_quiz_return_unchecked ==
  /\ pc = "loop"
  /\ response' = [Success(200) EXCEPT !.question = Format(next_question)]
  /\ pc' = "idle"
  /\ QuizLocalsCleared
  /\ UNCHANGED <<categories, questions, nextId, request>>

\* the turn of the while loop on a question not seen before, and the return
play_quiz_return ==
  /\ pc = "loop"
  /\ QId(next_question) \notin request.body.previous_questions.list
  /\ response' = [Success(200) EXCEPT !.question = Format(next_question)]
  /\ pc' = "idle"
  /\ QuizLocalsCleared
  /\ UNCHANGED <<categories, questions, nextId, request>>

(* ------------------------- initial states and inputs ------------------- *)
TextAb == <<"A", "b">>
TextBa == <<"b", "a">>
AnAnswer == <<"a">>
CategoryTables == {<<>>, <<<<1, "Science">>, <<2, "Art">>>>}

\* initial stores are small, or hold a full page or more
SeedSizes == (0..MaxSmallSeed) \cup (QUESTIONS_PER_PAGE..MaxSeed)

\* the i-th row of an initial store
SeedRow(i) ==
  Question(i, IF i % 2 = 1 THEN TextAb ELSE TextBa, AnAnswer, IF i % 3 = 2 THEN 2 ELSE 1, 1)

\* The store persists across runs of the server: it starts with any number
\* of rows, and with the ids that deleted rows have used up. A store without
\* categories is taken with the small stores of questions only.
Init ==
  /\ categories \in CategoryTables
  /\ \E n \in SeedSizes :
       /\ categories = <<>> => n <= MaxSmallSeed
       /\ questions = [i \in 1..n |-> SeedRow(i)]
  /\ nextId = MaxSeed + 1
  /\ request = Req("none", 1, 0, NoBody)
  /\ response = NoResponse
  /\ pc = "idle"
  /\ pool = <<>>
  /\ next_question = NoRow

Pages == (0 - MaxPage)..MaxPage

FullBodies ==
  { [NoBody EXCEPT !.question = JStr(TextAb), !.answer = JStr(AnAnswer),
                   !.difficulty = JInt(1), !.category = JInt(1)],
    [NoBody EXCEPT !.question = JStr(TextBa), !.answer = JStr(AnAnswer),
                   !.difficulty = JInt(2), !.category = JInt(2)] }

AddFields == {"question", "answer", "difficulty", "category"}

\* complete bodies, and bodies with fields left out or sent as ''
AddBodies ==
  FullBodies
    \cup {[b EXCEPT ![f] = v] : b \in FullBodies, f \in AddFields, v \in {JAbsent, EmptyStr}}
    \cup {NoBody, [NoBody EXCEPT !.question = EmptyStr, !.answer = EmptyStr]}

SearchTerms == {<<>>, <<"B">>, <<"a", "B">>, <<"c">>, <<"_", "a">>}

SearchBodies ==
  {NoBody} \cup {[NoBody EXCEPT !.searchTerm = JStr(t)] : t \in SearchTerms}

QuizBodies ==
  {[NoBody EXCEPT !.previous_questions = p, !.quiz_category = c] :
     p \in {JAbsent} \cup {JList(l) : l \in SUBSET (1..MaxPreviousId)},
     c \in {JAbsent} \cup {JObj(k) : k \in 0..2}}

\* the first row of an initial store and the first row inserted since
DeleteIds == {1, MaxSeed + 1}

\* a request body with the outcome of the insertion; the outcome matters to
\* complete bodies only
AddInputs ==
  (FullBodies \X BOOLEAN) \cup ((AddBodies \ FullBodies) \X {TRUE})

Next ==
  \/ get_all_categories
  \/ \E page \in Pages : get_questions(page)
  \/ \E id \in DeleteIds : \E committed \in BOOLEAN : delete_question(id, committed)
  \/ \E in \in AddInputs : nextId <= MaxSeed + MaxAdds /\ add_question(in[1], in[2])
  \/ \E page \in 1..2 : \E body \in SearchBodies : search_questions(page, body)
  \/ \E id \in 1..3 : get_questions_by_category(id)
  \/ \E body \in QuizBodies : play_quiz(body)
  \/ play_quiz_draw
  \/ \E r \in 0..(MaxSeed + MaxAdds) : play_quiz_redraw(r)
  \/ play_quiz_return

Spec == Init /\ [][Next]_vars

\* The random draw is fair: a draw that stays possible is made in the end,
\* and a handler that can return does.
Fairness ==
  /\ WF_vars(play_quiz_draw)
  /\ WF_vars(play_quiz_return)
  /\ \A r \in 0..(MaxSeed + MaxAdds) : WF_vars(play_quiz_redraw(r))

LiveSpec == Init /\ [][Next]_vars /\ Fairness

(* ------------------------------ properties ----------------------------- *)
Range(s) == {s[i] : i \in 1..Len(s)}

\* the request's value of a body key, '' when the key is absent
Sent(key) == IF request.body[key].type = "absent" THEN EmptyStr ELSE request.body[key]

\* the number of the last page that holds a question
LastPage(n) == (n + QUESTIONS_PER_PAGE - 1) \div QUESTIONS_PER_PAGE

\* C1: a successful GET /questions carries between 1 and 10 questions, and a
\* page beyond the last page is answered 404, never with an empty success.
C1_PageAtMostTenElseNotFound ==
  request.op = "get_questions" =>
    /\ response.success =>
         /\ response.status = 200
         /\ Len(response.questions) \in 1..10
    /\ request.page > LastPage(Len(questions)) =>
         /\ response.status = 404
         /\ ~response.success
         /\ response.questions = <<>>

\* page 2 of a store of exactly ten questions was asked for and answered 404
C1_Witness ==
  /\ request.op = "get_questions"
  /\ request.page = 2
  /\ Len(questions) = 10
  /\ response.status = 404

\* the questions a quiz request may be answered with: those of the asked
\* category (all, for category 0) not listed in previous_questions
Unseen ==
  {q \in Range(questions) :
     /\ q[1] \notin request.body.previous_questions.list
     /\ request.body.quiz_category.int # 0 => q[4] = request.body.quiz_category.int}

Candidates ==
  {q \in Range(questions) :
     request.body.quiz_category.int # 0 => q[4] = request.body.quiz_category.int}

QuizAsked ==
  /\ request.op = "play_quiz"
  /\ request.body.previous_questions.type = "list"
  /\ request.body.quiz_category.type = "obj"

\* C2: a successful POST /quizzes carries a stored question whose id is not
\* in previous_questions and, unless quiz_category.id is 0, whose category
\* is quiz_category.id.
C2_QuizQuestionUnseenAndInCategory ==
  (request.op = "play_quiz" /\ response.success) =>
    /\ response.status = 200
    /\ response.question.id \notin request.body.previous_questions.list
    /\ request.body.quiz_category.int # 0 =>
         response.question.category = request.body.quiz_category.int
    /\ \E q \in Range(questions) : q[1] = response.question.id

\* a quiz over category 1 with question 1 already seen was answered, while
\* the store holds seen questions of category 1 and questions of category 2
C2_Witness ==
  /\ request.op = "play_quiz"
  /\ response.success
  /\ request.body.quiz_category.int = 1
  /\ request.body.previous_questions.list = {1}
  /\ \E q \in Range(questions) : q[1] = 1 /\ q[4] = 1
  /\ \E q \in Range(questions) : q[4] = 2

\* term occurs in text as a substring, up to case
ContainsCI(text, term) ==
  \E k \in 0..(Len(text) - Len(term)) :
    \A j \in 1..Len(term) : Lower(text[k + j]) = Lower(term[j])

Matching(term) == {q \in Range(questions) : ContainsCI(q[2], term)}

\* a search term without the pattern characters of LIKE
PlainTerm(term) == \A j \in 1..Len(term) : term[j] \notin {"%", "_"}

\* C3: POST /questions/search answers 422 to an empty term, 404 to a term no
\* question contains, and otherwise 200 with exactly the questions whose
\* text contains the term up to case, however many they are. Stated for
\* requests without a page argument and for terms of plain characters.
C3_SearchReturnsExactlyTheMatches ==
  (/\ request.op = "search_questions"
   /\ request.page = 1
   /\ PlainTerm(Sent("searchTerm").str)) =>
    IF Sent("searchTerm") = EmptyStr THEN response.status = 422
    ELSE IF Matching(Sent("searchTerm").str) = {} THEN response.status = 404
    ELSE /\ response.status = 200
         /\ response.success
         /\ Len(response.questions) = Cardinality(Matching(Sent("searchTerm").str))
         /\ {q.id : q \in Range(response.questions)}
              = {q[1] : q \in Matching(Sent("searchTerm").str)}

\* C4: GET /categories/<id>/questions answers 422 when no category has the
\* id, and otherwise 200 with a page of exactly the questions of that
\* category, their number as total_questions and the category's type.
C4_QuestionsOfCategory ==
  request.op = "get_questions_by_category" =>
    IF \A c \in Range(categories) : c[1] # request.id
    THEN response.status = 422
    ELSE /\ response.status = 200
         /\ response.success
         /\ {q.id : q \in Range(response.questions)} \subseteq
              {q[1] : q \in {r \in Range(questions) : r[4] = request.id}}
         /\ response.total_questions
              = Cardinality({r \in Range(questions) : r[4] = request.id})
         /\ \E c \in Range(categories) :
              c[1] = request.id /\ response.current_category = c[2]

\* C5: GET /categories on a store without Category rows is answered 404 with
\* success false.
C5_NoCategoriesNotFound ==
  (request.op = "get_all_categories" /\ categories = <<>>) =>
    /\ response.status = 404
    /\ ~response.success

\* C6: DELETE /questions/<id> for an id the store does not hold is answered
\* 422 with success false and leaves the stored questions as they were.
C6_DeleteMissingUnprocessable ==
  [][(request'.op = "delete_question"
        /\ \A q \in Range(questions) : q[1] # request'.id) =>
       /\ response'.status = 422
       /\ ~response'.success
       /\ questions' = questions]_vars

\* a deletion of an id that no stored question has was answered 422
C6_Witness ==
  /\ request.op = "delete_question"
  /\ response.status = 422
  /\ questions # <<>>
  /\ \A q \in Range(questions) : q[1] # request.id

\* C7: a successful DELETE /questions/<id> removes the question with that
\* id and no other, so the count drops by one, and reports deleted = id; a
\* successful POST /questions raises the count by one with a question of a
\* fresh id, so deleting that question restores the count.
C7_DeleteRemovesExactlyThatQuestion ==
  [][/\ (request'.op = "delete_question" /\ response'.success) =>
          /\ response'.status = 200
          /\ response'.deleted = request'.id
          /\ \E q \in Range(questions) : q[1] = request'.id
          /\ Len(questions') = Len(questions) - 1
          /\ \A q \in Range(questions') : q[1] # request'.id
          /\ Range(questions') = {q \in Range(questions) : q[1] # request'.id}
     /\ (request'.op = "add_question" /\ response'.success) =>
          /\ Len(questions') = Len(questions) + 1
          /\ \E q \in Range(questions') :
               /\ \A o \in Range(questions) : o[1] # q[1]
               /\ Range(questions') = Range(questions) \cup {q}]_vars

\* the question created since the initial state was deleted again, and the
\* store holds as many questions as it might have held at the start
C7_Witness ==
  /\ request.op = "delete_question"
  /\ response.success
  /\ request.id = MaxSeed + 1
  /\ Len(questions) = QUESTIONS_PER_PAGE

\* C8: POST /questions with one of question, answer, difficulty, category
\* left out or '' is answered 422 and stores nothing; it is answered 201
\* with success true only when all four are there, and then exactly one
\* question is added; no other answer is given.
C8_CreateNeedsAllFields ==
  [][request'.op = "add_question" =>
       LET incomplete == \E f \in AddFields :
                           request'.body[f].type = "absent" \/ request'.body[f] = EmptyStr
       IN  /\ response'.status \in {201, 422}
           /\ incomplete => response'.status = 422
           /\ response'.status = 422 => (~response'.success /\ questions' = questions)
           /\ response'.status = 201 =>
                /\ response'.success
                /\ ~incomplete
                /\ Len(questions') = Len(questions) + 1
                /\ SubSeq(questions', 1, Len(questions)) = questions
                /\ questions'[Len(questions')][2] = request'.body.question.str
                /\ questions'[Len(questions')][3] = request'.body.answer.str
                /\ questions'[Len(questions')][4] = request'.body.category.int
                /\ questions'[Len(questions')][5] = request'.body.difficulty.int]_vars

\* a body without difficulty and with the other three fields was answered 422
C8_Witness ==
  /\ request.op = "add_question"
  /\ request.body.difficulty.type = "absent"
  /\ request.body.question.type = "str" /\ request.body.question # EmptyStr
  /\ request.body.answer.type = "str" /\ request.body.answer # EmptyStr
  /\ request.body.category.type = "int"
  /\ response.status = 422

\* C9: a quiz request whose candidate pool holds a question not yet seen is
\* answered with success in the end, and when one question only is unseen
\* that question is the answer.
C9_UnseenQuestionEventuallyReturned ==
  /\ (QuizAsked /\ pc # "idle" /\ Unseen # {}) ~> (QuizAsked /\ response.success)
  /\ [](\A q \in Range(questions) :
          (QuizAsked /\ response.success /\ Unseen = {q}) => response.question = Format(q))

\* a quiz was answered although two of the three candidates had been seen
C9_Witness ==
  /\ QuizAsked
  /\ response.success
  /\ Cardinality(Candidates) = 3
  /\ Cardinality(Unseen) = 1

\* C10 as stated: whenever every candidate is in previous_questions, the
\* quiz request gets no response.
C10_ExhaustedPoolNeverAnswers ==
  (QuizAsked /\ Unseen = {}) => response = NoResponse

\* C10 amended: a quiz request whose candidate pool is not empty and lies
\* within previous_questions gets no response and stays in the loop; one
\* whose candidate pool is empty is answered 500.
C10_ExhaustedNonEmptyPoolNeverAnswers ==
  /\ (QuizAsked /\ Unseen = {} /\ Candidates # {}) =>
       (response = NoResponse /\ pc \in {"draw", "loop"})
  /\ (QuizAsked /\ Candidates = {}) =>
       \/ response = NoResponse /\ pc = "draw"
       \/ response.status = 500 /\ pc = "idle"

\* the loop is drawing from a pool of two questions, both seen
C10_Witness ==
  /\ QuizAsked
  /\ pc = "loop"
  /\ Cardinality(Candidates) = 2
  /\ Unseen = {}

====
